---- MODULE Spec2Model ----
(***************************************************************************)
(* VoiceForge: the client-side playback controller (AudioPlayer) and the   *)
(* component that hosts it and talks to the server (VoiceStudio,           *)
(* src/unnamed/part_000).                                                  *)
(*                                                                         *)
(* Two versions of the AudioPlayer live in the repository:                 *)
(*   "part_001" : src/unnamed/part_001      (simulation timer kept in a    *)
(*                ref, load timeout, URL accessibility test)               *)
(*   "legacy"   : src/frontend/src/components/AudioPlayer.tsx              *)
(* The variable impl selects which of the two a behaviour is about; it     *)
(* never changes, so the state space is the disjoint union of the two      *)
(* components' state machines.                                             *)
(*                                                                         *)
(* One action is one run-to-completion piece of JavaScript: an event       *)
(* handler up to its first await, or the continuation after an await.      *)
(* React state updates made by one piece are batched, so the action sets   *)
(* the final values.                                                       *)
(*                                                                         *)
(* Time.  Simulated time is counted in timer ticks.  part_001 adds 0.1 per *)
(* tick in IEEE-754 doubles; the sum of fifty 0.1 is 4.999999999999998,    *)
(* so the test `progress >= 5` first succeeds on tick 51.  The legacy      *)
(* component adds 0.5 per tick (exact), so `progress >= 10` first succeeds *)
(* on tick 20.  currentTime and duration are kept in the same unit (one    *)
(* tick of the component's simulation); media positions use that unit too. *)
(***************************************************************************)
EXTENDS Integers, FiniteSets, Sequences, TLC

\* ---------------------------------------------------------------- bounds
MaxAttempts == 1        \* togglePlay continuations that may be pending at once
MaxIntervals == 2       \* browser interval timers that may be alive at once
MaxFetches == 1         \* HEAD requests that may be in flight at once
MediaDuration == 2      \* length of a real media file, in model time units
SeekOvershoot == 1      \* how far outside the progress bar a click offset may lie
MaxRequests == 2        \* voice requests that may be unanswered at once

\* ------------------------------------------------------ program constants
SimDuration == 50       \* part_001: setDuration(5), in ticks of 0.1
SimEndTick == 51        \* part_001: first tick with progress >= 5 (see above)
LegacySimDuration == 20 \* legacy: setDuration(10), in ticks of 0.5
LegacyEndTick == 20     \* legacy: first tick with progress >= 10

\* ------------------------------------------------------------ references
NoUrl == "none"
Urls == {"placeholder_a.mp3", "fallback_b.mp3", "https://murf.ai/c.mp3", "https://cdn.example.com/d.mp3"}

\* The fragments the code searches for with String.includes, per model URL.
Includes(url, needle) ==
  CASE url = "placeholder_a.mp3"            -> needle \in {"placeholder_"}
    [] url = "fallback_b.mp3"               -> needle \in {"fallback_"}
    [] url = "https://murf.ai/c.mp3"        -> needle \in {"murf.ai"}
    [] OTHER                                -> FALSE

isPlaceholderUrl(url) ==
  \/ Includes(url, "placeholder_")
  \/ Includes(url, "mock-audio")
  \/ Includes(url, "error_placeholder")
  \/ Includes(url, "fallback_")

isMurfUrl(url) == Includes(url, "murf.ai") \/ Includes(url, "amazonaws.com")

isMockUrl(url) == Includes(url, "mock-audio-service.com") \/ Includes(url, "placeholder_")

\* ------------------------------------------------------------------ state
VARIABLES
  impl,                  \* which AudioPlayer source file the behaviour is about
  mounted,               \* the component is mounted
  audioUrl, isLoading,   \* props
  isPlaying, duration, currentTime, audioError, isLoadingAudio, audioTested,
  audioRef,              \* audioRef.current: the rendered <audio> element, or NullElement
  playPromiseRef,        \* playPromiseRef.current: id of the attempt whose play() promise it holds, 0 = null
  simulationIntervalRef, \* simulationIntervalRef.current: id of an interval timer, 0 = null
  intervals,             \* the browser's interval timers: id -> progress of its closure, -1 = not alive
  attempts,              \* togglePlay calls suspended at an await: id -> attempt record
  stopWaiting,           \* attempts whose play() promise a stopCurrentPlayback call is awaiting
  fetches,               \* HEAD requests of testAudioUrl in flight
  lastOp                 \* the operation that produced the state

\* VoiceStudio (src/unnamed/part_000)
VARIABLES
  studio,                \* "absent": the AudioPlayer is studied alone, its props set freely;
                         \* "alone": VoiceStudio is studied without its player;
                         \* "host": VoiceStudio with the part_001 AudioPlayer it renders
  studioMounted,         \* the VoiceStudio component is mounted
  text, selectedCharacter, isGenerating, lastResult, ws, connectionStatus,
  readyState,            \* websocket.readyState of the socket the effect created
  outstanding,           \* the voice_request messages sent and not yet answered, oldest first
  lastSent,              \* the last message the client sent on the socket
  studioOp               \* the VoiceStudio operation that ran last

playerVars == <<impl, mounted, audioUrl, isLoading, isPlaying, duration, currentTime,
                audioError, isLoadingAudio, audioTested, audioRef, playPromiseRef,
                simulationIntervalRef, intervals, attempts, stopWaiting, fetches, lastOp>>

studioVars == <<studio, studioMounted, text, selectedCharacter, isGenerating, lastResult, ws,
                connectionStatus, readyState, outstanding, lastSent, studioOp>>

vars == <<playerVars, studioVars>>

playerState == <<isPlaying, duration, currentTime, audioError, isLoadingAudio, audioTested>>

\* An op is [name, arg]: arg tells the branch the operation took; a reference
\* switch and an unmount record what they interrupted.
Op(name) == [name |-> name, arg |-> ""]
OpArg(name, arg) == [name |-> name, arg |-> arg]

NoError == "null"

\* The <audio> element: src is the src attribute togglePlay assigns, stage
\* abstracts readyState (0 nothing, 1 metadata, 2 >= HAVE_CURRENT_DATA, -1 the
\* load failed, -2 it failed with MEDIA_ERR_SRC_NOT_SUPPORTED, which leaves
\* networkState at NETWORK_NO_SOURCE); paused also holds for an element
\* stopped by an error.
NullElement == [present |-> FALSE, src |-> NoUrl, stage |-> 0, paused |-> TRUE, pos |-> 0]
FreshElement == [present |-> TRUE, src |-> NoUrl, stage |-> 0, paused |-> TRUE, pos |-> 0]

AttemptIds == 1..MaxAttempts
IntervalIds == 1..MaxIntervals

\* phase: "load" = awaiting Promise.race([loadAudio, loadTimeout]) (legacy: the
\* load promise), "play" = awaiting the play() promise.  attached: the element
\* the attempt listens to (load) or has asked to play (play) is still the
\* rendered one.  promise: state of the play() promise, "pending" or
\* "aborted" (rejected with AbortError, the attempt has not run yet).
\* ord: creation order among the pending attempts.
FreeAttempt == [phase |-> "free", attached |-> FALSE, promise |-> "none", ord |-> 0]

Live(atts) == {a \in AttemptIds : atts[a].phase # "free"}
LiveIntervals == {i \in IntervalIds : intervals[i] >= 0}

Min(S) == CHOOSE x \in S : \A y \in S : x <= y

\* setState on an unmounted component is dropped by React.
Set(cur, new) == IF mounted THEN new ELSE cur

\* lastResult is null or the voice_response message received last; a message
\* sent is [type, text, character_id].
NoResult == [type |-> "null", audio_url |-> NoUrl, character_id |-> ""]
NoMessage == [type |-> "none", text |-> "", character_id |-> ""]

\* VoiceStudio after its first render and its effects: the socket exists and
\* is connecting.  Without a VoiceStudio nothing of it ever moves.
StudioInit ==
  /\ studio \in {"absent", "alone", "host"}
  /\ studioMounted = (studio # "absent")
  /\ text = ""
  /\ selectedCharacter = "narrator"
  /\ isGenerating = FALSE
  /\ lastResult = NoResult
  /\ ws = "null"
  /\ connectionStatus = "connecting"
  /\ readyState = IF studio = "absent" THEN "CLOSED" ELSE "CONNECTING"
  /\ outstanding = << >>
  /\ lastSent = NoMessage
  /\ studioOp = Op("init")

Init ==
  /\ StudioInit
  /\ impl \in (IF studio = "absent" THEN {"part_001", "legacy"} ELSE {"part_001"})
  /\ mounted = (studio # "alone")
  /\ audioUrl = NoUrl
  /\ isLoading = FALSE
  /\ isPlaying = FALSE
  /\ duration = 0
  /\ currentTime = 0
  /\ audioError = NoError
  /\ isLoadingAudio = FALSE
  /\ audioTested = FALSE
  /\ audioRef = NullElement
  /\ playPromiseRef = 0
  /\ simulationIntervalRef = 0
  /\ intervals = [i \in IntervalIds |-> -1]
  /\ attempts = [a \in AttemptIds |-> FreeAttempt]
  /\ stopWaiting = {}
  /\ fetches = 0
  /\ lastOp = Op("init")

\* ------------------------------------------------------------- rendering
\* Whether the component renders the <audio> element for the given props.
RendersAudio(url, loading) ==
  /\ ~loading
  /\ url # NoUrl
  /\ IF impl = "part_001" THEN ~isPlaceholderUrl(url) ELSE ~isMockUrl(url)

\* Whether the component renders the play button and the progress bar.
RendersControls == mounted /\ ~isLoading /\ audioUrl # NoUrl

\* audioRef.current after React commits a render with the given props.
CommitElement(url, loading) ==
  IF RendersAudio(url, loading)
    THEN (IF audioRef.present THEN audioRef ELSE FreshElement)
    ELSE NullElement

\* An element removed from the document is paused by the browser, which
\* rejects its pending play() promises with AbortError; the attempts that
\* captured it still hold it.
Detach(atts) ==
  [a \in AttemptIds |->
     IF atts[a].phase = "free" THEN atts[a]
     ELSE [atts[a] EXCEPT !.attached = FALSE,
                          !.promise = IF atts[a].attached /\ @ = "pending" THEN "aborted" ELSE @]]

\* pause() or a new load on the rendered element rejects its pending play()
\* promises with AbortError.
AbortPlay(atts) ==
  [a \in AttemptIds |->
     IF atts[a].attached /\ atts[a].promise = "pending"
       THEN [atts[a] EXCEPT !.promise = "aborted"] ELSE atts[a]]

\* clearInterval(id); clearing the id 0 (null) or a dead timer does nothing.
ClearInterval(ivs, id) == [i \in IntervalIds |-> IF i = id THEN -1 ELSE ivs[i]]

\* ------------------------------------------------- audio reference change
\* What a reference switch or an unmount interrupts (recorded in lastOp).
Interrupted ==
  IF LiveIntervals # {} THEN "interval"
  ELSE IF audioRef.present /\ ~audioRef.paused THEN "media"
  ELSE IF Live(attempts) # {} THEN "attempt"
  ELSE "none"

\* NeedsFetch as it would be had the effect not excluded placeholder urls.
NeedsFetch_Placeholders(url) == url # NoUrl /\ ~isMurfUrl(url)

\* testAudioUrl issues a HEAD request for the url (not a placeholder, not Murf).
NeedsFetch(url) == url # NoUrl /\ ~isPlaceholderUrl(url) /\ ~isMurfUrl(url)

\* ResetEffect as it would be had the effect forgotten the simulation timer.
ResetEffect_KeepsInterval(url, el, atts) ==
  /\ isPlaying' = FALSE
  /\ currentTime' = 0
  /\ duration' = 0
  /\ audioError' = NoError
  /\ isLoadingAudio' = FALSE
  /\ UNCHANGED <<intervals, simulationIntervalRef>>
  /\ playPromiseRef' = 0
  /\ audioRef' = IF el.present THEN [el EXCEPT !.paused = TRUE, !.pos = 0] ELSE el
  /\ attempts' = IF el.present THEN AbortPlay(atts) ELSE atts
  /\ audioTested' = (url # NoUrl /\ ~isPlaceholderUrl(url) /\ isMurfUrl(url))
  /\ fetches' = IF url # NoUrl /\ ~isPlaceholderUrl(url) /\ ~isMurfUrl(url)
                  THEN fetches + 1 ELSE fetches

\* part_001, the two effects that run when audioUrl changes.  el and atts are
\* audioRef.current and the pending attempts after the commit.
\*   effect [audioUrl]: reset the state, clear the simulation interval, drop
\*   the play promise, pause and rewind the rendered element.
\*   effect [audioUrl, audioTested]: testAudioUrl(url) for a real url; a Murf
\*   url is marked tested at once, any other starts a HEAD request.
ResetEffect(url, el, atts) ==
  /\ isPlaying' = FALSE
  /\ currentTime' = 0
  /\ duration' = 0
  /\ audioError' = NoError
  /\ isLoadingAudio' = FALSE
  /\ intervals' = ClearInterval(intervals, simulationIntervalRef)
  /\ simulationIntervalRef' = 0
  /\ playPromiseRef' = 0
  /\ audioRef' = IF el.present THEN [el EXCEPT !.paused = TRUE, !.pos = 0] ELSE el
  /\ attempts' = IF el.present THEN AbortPlay(atts) ELSE atts
  /\ audioTested' = (url # NoUrl /\ ~isPlaceholderUrl(url) /\ isMurfUrl(url))
  /\ fetches' = IF NeedsFetch(url) THEN fetches + 1 ELSE fetches

\* legacy, the effect [audioUrl]: four state resets, nothing else.
LegacyResetEffect(el, atts) ==
  /\ isPlaying' = FALSE
  /\ currentTime' = 0
  /\ duration' = 0
  /\ audioError' = NoError
  /\ audioRef' = el
  /\ attempts' = atts
  /\ UNCHANGED <<isLoadingAudio, intervals, simulationIntervalRef, playPromiseRef,
                 audioTested, fetches>>

\* The parent re-renders the component with new props.
SetProps(url, loading) ==
  /\ mounted
  /\ <<url, loading>> # <<audioUrl, isLoading>>
  /\ (impl = "part_001" /\ url # audioUrl /\ NeedsFetch(url)) => fetches < MaxFetches
  /\ LET el == CommitElement(url, loading)
         atts == IF audioRef.present /\ ~el.present THEN Detach(attempts) ELSE attempts
     IN /\ audioUrl' = url
        /\ isLoading' = loading
        /\ IF url # audioUrl
             THEN /\ IF impl = "part_001" THEN ResetEffect(url, el, atts)
                                          ELSE LegacyResetEffect(el, atts)
                  /\ lastOp' = OpArg("audioUrlChange", Interrupted)
             ELSE /\ audioRef' = el
                  /\ attempts' = atts
                  /\ lastOp' = Op("isLoadingChange")
                  /\ UNCHANGED <<isPlaying, currentTime, duration, audioError, isLoadingAudio,
                                 intervals, simulationIntervalRef, playPromiseRef,
                                 audioTested, fetches>>
  /\ UNCHANGED <<impl, mounted, stopWaiting>>

\* The component unmounts.  Neither version registers a cleanup: the element
\* leaves the document (the browser pauses it), timers and pending promises
\* stay.  React destroys the component's props and state; the variables that
\* held them go back to their initial values and are never written again.
Unmount ==
  /\ mounted
  /\ mounted' = FALSE
  /\ audioUrl' = NoUrl
  /\ isLoading' = FALSE
  /\ isPlaying' = FALSE
  /\ duration' = 0
  /\ currentTime' = 0
  /\ audioError' = NoError
  /\ isLoadingAudio' = FALSE
  /\ audioTested' = FALSE
  /\ audioRef' = NullElement
  /\ attempts' = IF audioRef.present THEN Detach(attempts) ELSE attempts
  /\ lastOp' = OpArg("unmount", Interrupted)
  /\ UNCHANGED <<impl, playPromiseRef, simulationIntervalRef, intervals, stopWaiting, fetches>>

\* ------------------------------------------------ simulated playback
\* playPlaceholderAudio as it would be without "Clear any existing interval".
playPlaceholderAudio_NoClear ==
  /\ \E i \in IntervalIds : intervals[i] < 0
  /\ LET id == Min({i \in IntervalIds : intervals[i] < 0})
     IN /\ intervals' = [intervals EXCEPT ![id] = 0]
        /\ simulationIntervalRef' = id
  /\ isLoadingAudio' = FALSE
  /\ isPlaying' = TRUE
  /\ duration' = SimDuration
  /\ UNCHANGED <<currentTime, audioRef, playPromiseRef, attempts, stopWaiting>>

\* part_001 playPlaceholderAudio: the guard `!audioUrl` holds nowhere it is
\* called.  The new timer takes a free timer id.
playPlaceholderAudio ==
  /\ \E i \in IntervalIds : ClearInterval(intervals, simulationIntervalRef)[i] < 0
  /\ LET cleared == ClearInterval(intervals, simulationIntervalRef)
         id == Min({i \in IntervalIds : cleared[i] < 0})
     IN /\ intervals' = [cleared EXCEPT ![id] = 0]
        /\ simulationIntervalRef' = id
  /\ isLoadingAudio' = FALSE
  /\ isPlaying' = TRUE
  /\ duration' = SimDuration
  /\ UNCHANGED <<currentTime, audioRef, playPromiseRef, attempts, stopWaiting>>

\* stopCurrentPlaybackNow as it would be had it paused without rewinding:
\* neither the element nor the elapsed time goes back to 0.
stopCurrentPlaybackNow_KeepsTime ==
  /\ intervals' = ClearInterval(intervals, simulationIntervalRef)
  /\ simulationIntervalRef' = 0
  /\ IF audioRef.present
       THEN /\ audioRef' = [audioRef EXCEPT !.paused = TRUE]
            /\ attempts' = IF audioRef.paused THEN attempts ELSE AbortPlay(attempts)
       ELSE UNCHANGED <<audioRef, attempts>>
  /\ isPlaying' = FALSE
  /\ UNCHANGED <<currentTime, duration, isLoadingAudio, playPromiseRef, stopWaiting>>

\* part_001 stopCurrentPlayback when it does not have to wait for a play()
\* promise (no element, or playPromiseRef.current is null).
stopCurrentPlaybackNow ==
  /\ intervals' = ClearInterval(intervals, simulationIntervalRef)
  /\ simulationIntervalRef' = 0
  /\ IF audioRef.present
       THEN /\ audioRef' = [audioRef EXCEPT !.paused = TRUE, !.pos = 0]
            /\ attempts' = IF audioRef.paused THEN attempts ELSE AbortPlay(attempts)
       ELSE UNCHANGED <<audioRef, attempts>>
  /\ isPlaying' = FALSE
  /\ currentTime' = 0
  /\ UNCHANGED <<duration, isLoadingAudio, playPromiseRef, stopWaiting>>

\* SimulationTick as it would be had the callback not cleared its timer when
\* the progress reaches the end.
SimulationTick_NoClear(i) ==
  /\ intervals[i] >= 0
  /\ intervals[i] <= SimEndTick
  /\ LET progress == intervals[i] + 1
     IN IF progress >= (IF impl = "part_001" THEN SimEndTick ELSE LegacyEndTick)
          THEN /\ isPlaying' = Set(isPlaying, FALSE)
               /\ currentTime' = Set(currentTime, 0)
               /\ intervals' = [intervals EXCEPT ![i] = progress]
               /\ UNCHANGED simulationIntervalRef
          ELSE /\ currentTime' = Set(currentTime, progress)
               /\ intervals' = [intervals EXCEPT ![i] = progress]
               /\ UNCHANGED <<isPlaying, simulationIntervalRef>>
  /\ lastOp' = [name |-> "tick", arg |-> ""]
  /\ UNCHANGED <<impl, mounted, audioUrl, isLoading, duration, audioError, isLoadingAudio,
                 audioTested, audioRef, playPromiseRef, attempts, stopWaiting, fetches>>

\* The interval callback of the simulation (part_001: lines 96-108, legacy:
\* lines 45-54).  The cap on the progress keeps a timer that is never cleared
\* finite.  In the legacy component the last tick and the 10 s timeout that
\* clears the timer (lines 57-59) are due at the same moment, and either may
\* run first.
SimulationTick(i) ==
  /\ intervals[i] >= 0
  /\ intervals[i] <= SimEndTick
  /\ LET progress == intervals[i] + 1
     IN IF impl = "part_001"
          THEN IF progress >= SimEndTick
                 THEN /\ isPlaying' = Set(isPlaying, FALSE)
                      /\ currentTime' = Set(currentTime, 0)
                      /\ intervals' = ClearInterval([intervals EXCEPT ![i] = progress],
                                                    simulationIntervalRef)
                      /\ simulationIntervalRef' = 0
                 ELSE /\ currentTime' = Set(currentTime, progress)
                      /\ intervals' = [intervals EXCEPT ![i] = progress]
                      /\ UNCHANGED <<isPlaying, simulationIntervalRef>>
          ELSE IF progress >= LegacyEndTick
                 THEN \/ /\ isPlaying' = Set(isPlaying, FALSE)
                         /\ currentTime' = Set(currentTime, 0)
                         /\ intervals' = ClearInterval(intervals, i)
                         /\ UNCHANGED simulationIntervalRef
                      \/ /\ intervals' = ClearInterval(intervals, i)
                         /\ UNCHANGED <<isPlaying, currentTime, simulationIntervalRef>>
                 ELSE /\ currentTime' = Set(currentTime, progress)
                      /\ intervals' = [intervals EXCEPT ![i] = progress]
                      /\ UNCHANGED <<isPlaying, simulationIntervalRef>>
  /\ lastOp' = Op("tick")
  /\ UNCHANGED <<impl, mounted, audioUrl, isLoading, duration, audioError, isLoadingAudio,
                 audioTested, audioRef, playPromiseRef, attempts, stopWaiting, fetches>>

\* ------------------------------------------------------------ failures
\* The values a togglePlay call can catch:
\*   "timeout"            new Error('Audio load timeout')
\*   "load1".."load4"     new Error('Audio load error: ' + audio.error.message)
\*                        for MediaError codes 1..4
\*   "load0"              new Error('Audio failed to load') (audio.error is null)
\*   "AbortError", "NotAllowedError", "NotSupportedError"
\*                        DOMExceptions rejecting the play() promise
\*   "TypeError"          audioRef.current is null after the await
MediaErrorCodes == 0..4
LoadError(code) ==
  CASE code = 0 -> "load0" [] code = 1 -> "load1" [] code = 2 -> "load2"
    [] code = 3 -> "load3" [] OTHER -> "load4"

ErrName(err) ==
  IF err \in {"AbortError", "NotAllowedError", "NotSupportedError", "TypeError"} THEN err ELSE "Error"

\* error.message.toLowerCase().includes(needle).  The browser's MediaError
\* message is taken to mention "aborted" for code 1 and "network" for code 2;
\* an AbortError's message says the play() request was "interrupted".
ErrIncludes(err, needle) ==
  CASE err = "timeout"    -> needle = "timeout"
    [] err = "load1"      -> needle = "aborted"
    [] err = "load2"      -> needle = "network"
    [] err = "AbortError" -> needle = "interrupted"
    [] OTHER              -> FALSE

\* part_001, the message chosen by the catch block of togglePlay.
CatchReason(err) ==
  IF ErrIncludes(err, "interrupted") \/ ErrIncludes(err, "aborted")
    THEN "Playback was interrupted. Please try again."
  ELSE IF ErrIncludes(err, "cors") \/ ErrIncludes(err, "cross-origin")
    THEN "CORS error - audio may still be accessible via direct link"
  ELSE IF ErrIncludes(err, "timeout")
    THEN "Audio loading timed out - the file may be large or server slow"
  ELSE IF ErrName(err) = "NotSupportedError"
    THEN "Audio format not supported by your browser"
  ELSE IF ErrName(err) = "NotAllowedError"
    THEN "Audio playback blocked. Click to enable audio"
  ELSE IF ErrIncludes(err, "network") \/ ErrIncludes(err, "fetch")
    THEN "Network error: Unable to load audio file"
  ELSE "Playback failed"

\* part_001, the message chosen by handleAudioError.
MediaErrorReason(code) ==
  CASE code = 1 -> "Audio loading was aborted"
    [] code = 2 -> "Network error while loading audio - check your connection"
    [] code = 3 -> "Audio file is corrupted or invalid format"
    [] code = 4 -> "Audio format not supported"
    [] OTHER    -> "Audio file could not be loaded"

LegacyCatchReason == "Unable to play audio. The file may not exist or be corrupted."
LegacyMediaErrorReason == "Audio file could not be loaded"

\* ------------------------------------------- handlers as state functions
\* The part of the state that the asynchronous pieces of togglePlay and
\* stopCurrentPlayback read and write, as one record, so that the pieces run
\* by one event compose in the order the browser runs them.
Snapshot ==
  [isPlaying |-> isPlaying, currentTime |-> currentTime, duration |-> duration,
   audioError |-> audioError, isLoadingAudio |-> isLoadingAudio,
   playPromiseRef |-> playPromiseRef, audioRef |-> audioRef, attempts |-> attempts]

\* Refs and the element are written always; React state only while mounted.
Apply(st) ==
  /\ isPlaying' = Set(isPlaying, st.isPlaying)
  /\ currentTime' = Set(currentTime, st.currentTime)
  /\ duration' = Set(duration, st.duration)
  /\ audioError' = Set(audioError, st.audioError)
  /\ isLoadingAudio' = Set(isLoadingAudio, st.isLoadingAudio)
  /\ playPromiseRef' = st.playPromiseRef
  /\ audioRef' = st.audioRef
  /\ attempts' = st.attempts

\* An attempt ends: its slot is freed and the younger attempts move up.
Free(atts, a) ==
  [b \in AttemptIds |->
     IF b = a THEN FreeAttempt
     ELSE IF atts[b].phase # "free" /\ atts[b].ord > atts[a].ord
       THEN [atts[b] EXCEPT !.ord = @ - 1]
     ELSE atts[b]]

\* Catch as it would be without setIsPlaying(false).
Catch_KeepsPlaying(st, a, err) ==
  [st EXCEPT !.isLoadingAudio = FALSE, !.playPromiseRef = 0,
             !.audioError = IF impl = "part_001" THEN CatchReason(err) ELSE LegacyCatchReason,
             !.attempts = Free(st.attempts, a)]

\* The catch block of togglePlay (part_001: lines 231-258, legacy: 92-97).
Catch(st, a, err) ==
  IF impl = "part_001"
    THEN [st EXCEPT !.isLoadingAudio = FALSE, !.isPlaying = FALSE, !.playPromiseRef = 0,
                    !.audioError = CatchReason(err), !.attempts = Free(st.attempts, a)]
    ELSE [st EXCEPT !.isLoadingAudio = FALSE, !.isPlaying = FALSE,
                    !.audioError = LegacyCatchReason, !.attempts = Free(st.attempts, a)]

\* The outcomes of a play() call: the promise stays pending and the element
\* starts playing, or the call is refused and the promise is rejected at once.
PlayOutcomes == {"pending", "NotAllowedError", "NotSupportedError"}

\* element.play(): an element that had ended restarts from the beginning.
PlayCall(el, outcome) ==
  IF outcome = "pending"
    THEN [el EXCEPT !.paused = FALSE, !.pos = IF @ >= MediaDuration THEN 0 ELSE @]
    ELSE el

\* togglePlay after its load await succeeded (part_001: lines 220-225,
\* legacy: line 89): the element it plays is audioRef.current of that moment.
\* A refused play() returns a rejected promise, and the catch block runs
\* before anything else does.
AfterLoad(st, a, outcome) ==
  IF ~st.audioRef.present
    THEN Catch(st, a, "TypeError")
  ELSE IF outcome # "pending"
    THEN Catch(st, a, outcome)
    ELSE [st EXCEPT !.audioRef = PlayCall(@, outcome),
                    !.playPromiseRef = IF impl = "part_001" THEN a ELSE @,
                    !.attempts = [@ EXCEPT ![a] = [@ EXCEPT !.phase = "play", !.attached = TRUE,
                                                            !.promise = outcome]]]

\* togglePlay after its play() promise resolved (part_001: lines 227-229,
\* legacy: line 90).
AfterPlay(st, a) ==
  IF impl = "part_001"
    THEN [st EXCEPT !.isPlaying = TRUE, !.isLoadingAudio = FALSE, !.playPromiseRef = 0,
                    !.attempts = Free(st.attempts, a)]
    ELSE [st EXCEPT !.isPlaying = TRUE, !.attempts = Free(st.attempts, a)]

\* stopCurrentPlayback after the play() promise it awaited settled (part_001:
\* lines 126-135).  With no element the read of audioRef.current.paused
\* throws, and the togglePlay call that asked for the stop catches it.
AfterStopWait(st) ==
  IF ~st.audioRef.present
    THEN [st EXCEPT !.isLoadingAudio = FALSE, !.isPlaying = FALSE, !.playPromiseRef = 0,
                    !.audioError = CatchReason("TypeError")]
    ELSE [st EXCEPT !.playPromiseRef = 0,
                    !.audioRef = [@ EXCEPT !.paused = TRUE, !.pos = 0],
                    !.attempts = IF st.audioRef.paused THEN @ ELSE AbortPlay(@),
                    !.isPlaying = FALSE, !.currentTime = 0]

\* A new pending togglePlay call takes a free slot and is the youngest.
NewAttempt(atts) ==
  LET a == Min(AttemptIds \ Live(atts))
  IN [atts EXCEPT ![a] = [phase |-> "load", attached |-> TRUE, promise |-> "none",
                          ord |-> Cardinality(Live(atts)) + 1]]
NewAttemptId(atts) == Min(AttemptIds \ Live(atts))

\* Assigning a new src (part_001) or calling load() (legacy) restarts the
\* element's resource selection: it is paused and rewound, its pending play()
\* promises are rejected.
Reload(el, url) == [el EXCEPT !.src = url, !.stage = 0, !.paused = TRUE, !.pos = 0]

\* -------------------------------------------------------------- togglePlay
\* ErrorAfterPress as it would be without setAudioError(null).
ErrorAfterPress_Kept == audioError

\* part_001 togglePlay begins with setAudioError(null) (line 145).
ErrorAfterPress == NoError

\* part_001 togglePlay, up to its first await that has to wait.  The button is
\* rendered with the controls and disabled while isLoadingAudio.  outcome is
\* the result of play() when the element already has data and the call gets
\* that far at once.  An element whose load failed for want of a usable
\* source (networkState NETWORK_NO_SOURCE) is loaded anew (lines 212-215);
\* the press is recorded as a retry when an error was on display.
togglePlay(outcome) ==
  /\ impl = "part_001"
  /\ RendersControls
  /\ ~isLoadingAudio
  /\ IF isPlaceholderUrl(audioUrl)
       THEN /\ audioError' = ErrorAfterPress
            /\ IF isPlaying THEN stopCurrentPlaybackNow ELSE playPlaceholderAudio
            /\ lastOp' = OpArg("togglePlay", IF isPlaying THEN "stop"
                                              ELSE IF LiveIntervals # {} THEN "restart"
                                              ELSE "simulate")
       ELSE IF ~audioRef.present
         THEN /\ audioError' = ErrorAfterPress
              /\ lastOp' = OpArg("togglePlay", "noelement")
              /\ UNCHANGED <<isPlaying, duration, currentTime, isLoadingAudio, audioRef,
                             playPromiseRef, simulationIntervalRef, intervals, attempts,
                             stopWaiting>>
       ELSE IF isPlaying
         THEN IF playPromiseRef # 0
                THEN /\ audioError' = ErrorAfterPress
                     /\ intervals' = ClearInterval(intervals, simulationIntervalRef)
                     /\ simulationIntervalRef' = 0
                     /\ stopWaiting' = stopWaiting \cup {playPromiseRef}
                     /\ lastOp' = OpArg("togglePlay", "stopwait")
                     /\ UNCHANGED <<isPlaying, duration, currentTime, isLoadingAudio, audioRef,
                                    playPromiseRef, attempts>>
                ELSE /\ audioError' = ErrorAfterPress
                     /\ stopCurrentPlaybackNow
                     /\ lastOp' = OpArg("togglePlay", "stop")
         ELSE /\ Live(attempts) # AttemptIds
              /\ LET fresh == audioRef.src # audioUrl
                     reload == fresh \/ audioRef.stage = -2
                     el == IF reload THEN Reload(audioRef, audioUrl) ELSE audioRef
                     atts == NewAttempt(IF reload THEN AbortPlay(attempts) ELSE attempts)
                     a == NewAttemptId(attempts)
                     st == [Snapshot EXCEPT !.audioError = ErrorAfterPress,
                                            !.isLoadingAudio = TRUE, !.audioRef = el,
                                            !.attempts = atts]
                     fin == IF el.stage = 2 THEN AfterLoad(st, a, outcome) ELSE st
                 IN /\ isLoadingAudio' = fin.isLoadingAudio
                    /\ isPlaying' = fin.isPlaying
                    /\ audioError' = fin.audioError
                    /\ audioRef' = fin.audioRef
                    /\ attempts' = fin.attempts
                    /\ playPromiseRef' = fin.playPromiseRef
                    /\ lastOp' = OpArg("togglePlay", IF el.stage = 2 /\ outcome # "pending"
                                                      THEN "failed"
                                                      ELSE IF audioError # NoError THEN "retry"
                                                      ELSE "load")
              /\ UNCHANGED <<duration, currentTime, simulationIntervalRef,
                             intervals, stopWaiting>>
  /\ UNCHANGED <<impl, mounted, audioUrl, isLoading, audioTested, fetches>>

\* legacy togglePlay, up to its first await.  The simulation of a mock url
\* (lines 37-62) starts an interval held in a local variable.
LegacyTogglePlay ==
  /\ impl = "legacy"
  /\ RendersControls
  /\ ~isLoadingAudio
  /\ IF ~audioRef.present
       THEN /\ lastOp' = OpArg("togglePlay", "noelement")
            /\ UNCHANGED <<isPlaying, duration, currentTime, audioError, isLoadingAudio,
                           audioRef, intervals, attempts>>
       ELSE IF isPlaying
         THEN /\ audioError' = NoError
              /\ audioRef' = [audioRef EXCEPT !.paused = TRUE]
              /\ attempts' = AbortPlay(attempts)
              /\ isPlaying' = FALSE
              /\ lastOp' = OpArg("togglePlay", "stop")
              /\ UNCHANGED <<duration, currentTime, isLoadingAudio, intervals>>
       ELSE IF isMockUrl(audioUrl)
         THEN /\ \E i \in IntervalIds : intervals[i] < 0
              /\ audioError' = NoError
              /\ isLoadingAudio' = FALSE
              /\ isPlaying' = TRUE
              /\ duration' = LegacySimDuration
              /\ intervals' = [intervals EXCEPT ![Min({i \in IntervalIds : intervals[i] < 0})] = 0]
              /\ lastOp' = OpArg("togglePlay", "simulate")
              /\ UNCHANGED <<currentTime, audioRef, attempts>>
         ELSE /\ Live(attempts) # AttemptIds
              /\ audioError' = NoError
              /\ isLoadingAudio' = TRUE
              /\ audioRef' = Reload(audioRef, audioRef.src)
              /\ attempts' = NewAttempt(AbortPlay(attempts))
              /\ lastOp' = OpArg("togglePlay", "load")
              /\ UNCHANGED <<isPlaying, duration, currentTime, intervals>>
  /\ UNCHANGED <<impl, mounted, audioUrl, isLoading, audioTested, playPromiseRef,
                 simulationIntervalRef, stopWaiting, fetches>>

\* ------------------------------------------------------------ media events
\* The attempts waiting for the rendered element to load, oldest first.
WaitingOn(atts) == {a \in AttemptIds : atts[a].phase = "load" /\ atts[a].attached}

RECURSIVE ResumeAll(_, _, _)
\* Run AfterLoad for every waiting attempt in creation order.
ResumeAll(st, waiting, outcome) ==
  IF waiting = {} THEN st
  ELSE LET a == CHOOSE x \in waiting : \A y \in waiting : st.attempts[x].ord <= st.attempts[y].ord
       IN ResumeAll(AfterLoad(st, a, outcome), waiting \ {a}, outcome)

RECURSIVE CatchAll(_, _, _)
\* Run the catch block for every waiting attempt in creation order.
CatchAll(st, waiting, err) ==
  IF waiting = {} THEN st
  ELSE LET a == CHOOSE x \in waiting : \A y \in waiting : st.attempts[x].ord <= st.attempts[y].ord
       IN CatchAll(Catch(st, a, err), waiting \ {a}, err)

\* No play() promise on the rendered element is still pending: the promise
\* settles when playback starts, before the media clock moves.
PlaybackStarted == \A a \in AttemptIds : ~(attempts[a].attached /\ attempts[a].promise = "pending")

\* loadedmetadata on the rendered element: handleLoadedMetadata.
MediaLoadedMetadata ==
  /\ audioRef.present
  /\ audioRef.stage = 0
  /\ audioRef' = [audioRef EXCEPT !.stage = 1]
  /\ duration' = MediaDuration
  /\ audioError' = NoError
  /\ lastOp' = Op("loadedmetadata")
  /\ UNCHANGED <<impl, mounted, audioUrl, isLoading, isPlaying, currentTime, isLoadingAudio,
                 audioTested, playPromiseRef, simulationIntervalRef, intervals, attempts,
                 stopWaiting, fetches>>

\* loadeddata / canplay / canplaythrough on the rendered element: the load
\* promise of every attempt listening on it resolves (part_001: onCanPlay,
\* lines 189-194; legacy: onCanPlay, lines 68-73, which also clears
\* isLoadingAudio) and the attempts go on to play().
MediaCanPlay(outcome) ==
  /\ audioRef.present
  /\ audioRef.stage = 1
  /\ LET w == WaitingOn(attempts)
         st0 == [Snapshot EXCEPT !.audioRef = [@ EXCEPT !.stage = 2],
                                 !.isLoadingAudio = IF impl = "legacy" /\ w # {} THEN FALSE ELSE @]
     IN Apply(ResumeAll(st0, w, outcome))
  /\ lastOp' = OpArg("canplay", IF WaitingOn(attempts) # {} /\ outcome # "pending"
                                  THEN "failed" ELSE "ok")
  /\ UNCHANGED <<impl, mounted, audioUrl, isLoading, audioTested, simulationIntervalRef,
                 intervals, stopWaiting, fetches>>

\* The attempts whose play() promise on the rendered element is pending.
PlayingOn(atts) == {a \in AttemptIds : atts[a].attached /\ atts[a].promise = "pending"}

\* error on the rendered element.  React's handler runs first (part_001:
\* handleAudioError, lines 286-313; legacy: lines 118-122), then the onError
\* listener of every attempt listening on the element rejects its load
\* promise and the attempt's catch block runs.  The element stops; its
\* pending play() promises are rejected in the same task (NotSupportedError
\* for MEDIA_ERR_SRC_NOT_SUPPORTED, AbortError otherwise) and those attempts'
\* catch blocks run too.
MediaError(code) ==
  /\ audioRef.present
  /\ audioRef.stage >= 0
  /\ LET w == WaitingOn(attempts)
         el == [audioRef EXCEPT !.stage = IF code = 4 THEN -2 ELSE -1, !.paused = TRUE]
         pl == PlayingOn(attempts)
         st0 == IF impl = "part_001"
                  THEN [Snapshot EXCEPT !.isPlaying = FALSE, !.isLoadingAudio = FALSE,
                                        !.playPromiseRef = 0,
                                        !.audioError = MediaErrorReason(code),
                                        !.audioRef = el]
                  ELSE [Snapshot EXCEPT !.isPlaying = FALSE, !.isLoadingAudio = FALSE,
                                        !.audioError = LegacyMediaErrorReason,
                                        !.audioRef = el]
     IN Apply(CatchAll(CatchAll(st0, w, LoadError(code)), pl,
                       IF code = 4 THEN "NotSupportedError" ELSE "AbortError"))
  /\ lastOp' = Op("mediaerror")
  /\ UNCHANGED <<impl, mounted, audioUrl, isLoading, audioTested, simulationIntervalRef,
                 intervals, stopWaiting, fetches>>

\* The media clock advances while the element plays; timeupdate runs
\* handleTimeUpdate (part_001 lines 261-265 guard on isPlaying, legacy lines
\* 100-104 do not).
MediaTimeUpdate ==
  /\ audioRef.present
  /\ ~audioRef.paused
  /\ audioRef.stage = 2
  /\ audioRef.pos < MediaDuration
  /\ PlaybackStarted
  /\ audioRef' = [audioRef EXCEPT !.pos = @ + 1]
  /\ currentTime' = IF impl = "legacy" \/ isPlaying THEN audioRef.pos + 1 ELSE currentTime
  /\ lastOp' = Op("timeupdate")
  /\ UNCHANGED <<impl, mounted, audioUrl, isLoading, isPlaying, duration, audioError,
                 isLoadingAudio, audioTested, playPromiseRef, simulationIntervalRef, intervals,
                 attempts, stopWaiting, fetches>>

\* MediaEnded as it would be had handleEnded left the elapsed time alone.
MediaEnded_KeepsTime ==
  /\ audioRef.present
  /\ ~audioRef.paused
  /\ audioRef.stage = 2
  /\ audioRef.pos >= MediaDuration
  /\ PlaybackStarted
  /\ audioRef' = [audioRef EXCEPT !.paused = TRUE]
  /\ isPlaying' = FALSE
  /\ playPromiseRef' = 0
  /\ intervals' = ClearInterval(intervals, simulationIntervalRef)
  /\ simulationIntervalRef' = 0
  /\ lastOp' = [name |-> "ended", arg |-> ""]
  /\ UNCHANGED <<impl, mounted, audioUrl, isLoading, duration, currentTime, audioError,
                 isLoadingAudio, audioTested, attempts, stopWaiting, fetches>>

\* The element reaches the end of the media: ended runs handleEnded
\* (part_001 lines 274-284, legacy lines 113-116).
MediaEnded ==
  /\ audioRef.present
  /\ ~audioRef.paused
  /\ audioRef.stage = 2
  /\ audioRef.pos >= MediaDuration
  /\ PlaybackStarted
  /\ audioRef' = [audioRef EXCEPT !.paused = TRUE]
  /\ isPlaying' = FALSE
  /\ currentTime' = 0
  /\ IF impl = "part_001"
       THEN /\ playPromiseRef' = 0
            /\ intervals' = ClearInterval(intervals, simulationIntervalRef)
            /\ simulationIntervalRef' = 0
       ELSE UNCHANGED <<playPromiseRef, intervals, simulationIntervalRef>>
  /\ lastOp' = Op("ended")
  /\ UNCHANGED <<impl, mounted, audioUrl, isLoading, duration, audioError, isLoadingAudio,
                 audioTested, attempts, stopWaiting, fetches>>

\* ------------------------------------------------ pending togglePlay calls
\* part_001: the load timeout of a pending attempt fires (lines 177-179): the
\* race rejects and the catch block runs.
LoadTimeout(a) ==
  /\ impl = "part_001"
  /\ attempts[a].phase = "load"
  /\ Apply(Catch(Snapshot, a, "timeout"))
  /\ lastOp' = Op("loadtimeout")
  /\ UNCHANGED <<impl, mounted, audioUrl, isLoading, audioTested, simulationIntervalRef,
                 intervals, stopWaiting, fetches>>

\* The element an attempt captured has left the document, and fires the
\* event the attempt listens for: code < 0 is canplay, otherwise error with
\* that MediaError code.
DetachedLoadEvent(a, code, outcome) ==
  /\ attempts[a].phase = "load"
  /\ ~attempts[a].attached
  /\ LET st0 == [Snapshot EXCEPT !.isLoadingAudio = IF impl = "legacy" THEN FALSE ELSE @]
     IN Apply(IF code < 0 THEN AfterLoad(st0, a, outcome) ELSE Catch(st0, a, LoadError(code)))
  /\ lastOp' = OpArg("detachedload", IF code < 0 /\ audioRef.present /\ outcome = "pending"
                                       THEN "ok" ELSE "failed")
  /\ UNCHANGED <<impl, mounted, audioUrl, isLoading, audioTested, simulationIntervalRef,
                 intervals, stopWaiting, fetches>>

\* The play() promise of an attempt settles: the attempt continues, and then
\* every stopCurrentPlayback call that awaited the same promise.
PlaySettled(a) ==
  /\ attempts[a].phase = "play"
  /\ LET p == attempts[a].promise
         st1 == IF p = "pending" THEN AfterPlay(Snapshot, a)
                ELSE Catch(Snapshot, a, "AbortError")
     IN Apply(IF a \in stopWaiting THEN AfterStopWait(st1) ELSE st1)
  /\ stopWaiting' = stopWaiting \ {a}
  /\ lastOp' = OpArg("playsettled", IF attempts[a].promise = "pending" THEN "ok" ELSE "failed")
  /\ UNCHANGED <<impl, mounted, audioUrl, isLoading, audioTested, simulationIntervalRef,
                 intervals, fetches>>

\* part_001 testAudioUrl after its fetch (lines 70-79): a response that is
\* not ok sets the error; a response or a thrown fetch marks the url tested.
HeadResponse(ok) ==
  /\ impl = "part_001"
  /\ fetches > 0
  /\ fetches' = fetches - 1
  /\ audioError' = Set(audioError, IF ok THEN audioError ELSE "Audio file not accessible")
  /\ audioTested' = Set(audioTested, TRUE)
  /\ lastOp' = Op("headresponse")
  /\ UNCHANGED <<impl, mounted, audioUrl, isLoading, isPlaying, duration, currentTime,
                 isLoadingAudio, audioRef, playPromiseRef, simulationIntervalRef, intervals,
                 attempts, stopWaiting>>

\* ------------------------------------------------------------------- seek
\* percentage * duration for a click at offset clickX in a bar of the given
\* width.
SeekTarget(clickX, width, dur) == (clickX * dur) \div width

\* Assigning element.currentTime: the browser keeps the position inside the
\* media.
ClampPos(t) == IF t < 0 THEN 0 ELSE IF t > MediaDuration THEN MediaDuration ELSE t

\* The progress bar is taken to be as many pixels wide as the media is long.
SeekBarWidth == MediaDuration

\* Whether a click offset lies inside the bar (recorded in lastOp).
ClickSide(clickX) == IF 0 <= clickX /\ clickX <= SeekBarWidth THEN "inside" ELSE "outside"

\* handleSeek as it would be if it only checked the duration: a fallback
\* reference, which has no element, gets its elapsed time set.
handleSeek_AnyReference(clickX) ==
  /\ RendersControls
  /\ IF duration = 0
       THEN UNCHANGED <<audioRef, currentTime>>
       ELSE LET newTime == SeekTarget(clickX, SeekBarWidth, duration)
            IN /\ audioRef' = IF audioRef.present THEN [audioRef EXCEPT !.pos = ClampPos(newTime)]
                                                  ELSE audioRef
               /\ currentTime' = newTime
  /\ lastOp' = [name |-> "seek", arg |-> ClickSide(clickX)]
  /\ UNCHANGED <<impl, mounted, audioUrl, isLoading, isPlaying, duration, audioError,
                 isLoadingAudio, audioTested, playPromiseRef, simulationIntervalRef, intervals,
                 attempts, stopWaiting, fetches>>

\* handleSeek as it would be without the `duration === 0` check.
handleSeek_NoDurationGuard(clickX) ==
  /\ RendersControls
  /\ IF ~audioRef.present \/ (impl = "part_001" /\ isPlaceholderUrl(audioUrl))
       THEN UNCHANGED <<audioRef, currentTime>>
       ELSE LET newTime == SeekTarget(clickX, SeekBarWidth, duration)
            IN /\ audioRef' = [audioRef EXCEPT !.pos = ClampPos(newTime)]
               /\ currentTime' = newTime
  /\ lastOp' = [name |-> "seek", arg |-> ClickSide(clickX)]
  /\ UNCHANGED <<impl, mounted, audioUrl, isLoading, isPlaying, duration, audioError,
                 isLoadingAudio, audioTested, playPromiseRef, simulationIntervalRef, intervals,
                 attempts, stopWaiting, fetches>>

\* handleSeek (part_001 lines 315-326, legacy lines 131-142) for a click at
\* offset clickX of the progress bar.
handleSeek(clickX) ==
  /\ RendersControls
  /\ IF \/ ~audioRef.present
        \/ duration = 0
        \/ (impl = "part_001" /\ isPlaceholderUrl(audioUrl))
       THEN UNCHANGED <<audioRef, currentTime>>
       ELSE LET newTime == SeekTarget(clickX, SeekBarWidth, duration)
            IN /\ audioRef' = [audioRef EXCEPT !.pos = ClampPos(newTime)]
               /\ currentTime' = newTime
  /\ lastOp' = OpArg("seek", ClickSide(clickX))
  /\ UNCHANGED <<impl, mounted, audioUrl, isLoading, isPlaying, duration, audioError,
                 isLoadingAudio, audioTested, playPromiseRef, simulationIntervalRef, intervals,
                 attempts, stopWaiting, fetches>>

\* The click offsets tried: inside the bar and just outside it.
ClickOffsets == (0 - SeekOvershoot)..(SeekBarWidth + SeekOvershoot)

\* ------------------------------------------------------------ VoiceStudio
\* The texts the user can have in the textarea, and what String.trim makes
\* of them.
Texts == {"", "  ", " hi "}
Trim(t) == CASE t = "  " -> "" [] t = " hi " -> "hi" [] OTHER -> t

Characters == {"narrator", "hero"}

\* The audio_url of a voice_response: a fallback marker or a locator.
ResultUrls == {"placeholder_a.mp3", "https://murf.ai/c.mp3"}

\* The state the VoiceStudio handlers read and write, as one record.
StudioSnapshot ==
  [text |-> text, selectedCharacter |-> selectedCharacter, isGenerating |-> isGenerating,
   lastResult |-> lastResult, ws |-> ws, connectionStatus |-> connectionStatus,
   readyState |-> readyState, outstanding |-> outstanding, lastSent |-> lastSent]

\* The VoiceStudio operation is recorded where VoiceStudio is studied alone;
\* with the player hosted, lastOp tells what the player did last.
StudioOp(name, arg) == IF studio = "alone" THEN OpArg(name, arg) ELSE Op("init")

\* setState on an unmounted component is dropped by React.
StudioSet(cur, new) == IF studioMounted THEN new ELSE cur

\* The socket and the channel are written always; React state only while
\* mounted.
ApplyStudio(st) ==
  /\ text' = StudioSet(text, st.text)
  /\ selectedCharacter' = StudioSet(selectedCharacter, st.selectedCharacter)
  /\ isGenerating' = StudioSet(isGenerating, st.isGenerating)
  /\ lastResult' = StudioSet(lastResult, st.lastResult)
  /\ ws' = StudioSet(ws, st.ws)
  /\ connectionStatus' = StudioSet(connectionStatus, st.connectionStatus)
  /\ readyState' = st.readyState
  /\ outstanding' = st.outstanding
  /\ lastSent' = st.lastSent

\* The props VoiceStudio passes to the AudioPlayer (lines 295-298).
ChildUrl(st) == IF st.lastResult.type = "null" THEN NoUrl ELSE st.lastResult.audio_url

\* VoiceStudio re-renders with the state st: the AudioPlayer it hosts gets its
\* props, and its effects run when they changed.
RenderChild(st) ==
  IF studio = "host" /\ studioMounted /\ <<ChildUrl(st), st.isGenerating>> # <<audioUrl, isLoading>>
    THEN SetProps(ChildUrl(st), st.isGenerating)
    ELSE UNCHANGED playerVars

\* NoCallback as it would be had VoiceStudio passed the player an error
\* callback that drops the result.
NoCallback_DropsResult ==
  /\ lastResult' = IF audioError = NoError /\ audioError' # NoError THEN NoResult ELSE lastResult
  /\ UNCHANGED <<studio, studioMounted, text, selectedCharacter, isGenerating, ws,
                 connectionStatus, readyState, outstanding, lastSent, studioOp>>

\* The AudioPlayer gets no callback and no handle of the socket from
\* VoiceStudio (lines 295-298): nothing it does reaches VoiceStudio.
NoCallback == UNCHANGED studioVars

\* ws.send(JSON.stringify(msg)) on an open socket.
Send(st, msg) ==
  [st EXCEPT !.lastSent = msg,
             !.outstanding = IF msg.type = "voice_request" THEN Append(@, msg) ELSE @]

\* generateSpeechFn as it would be without the check of the trimmed text.
generateSpeechFn_NoTextCheck(st) ==
  IF st.ws = "null" \/ st.readyState # "OPEN" THEN st
  ELSE Send([st EXCEPT !.isGenerating = TRUE],
            [type |-> "voice_request", text |-> Trim(st.text),
             character_id |-> st.selectedCharacter])

\* generateSpeech (lines 115-139).  send() throws only on a connecting
\* socket, which the guard before it excludes.
generateSpeechFn(st) ==
  IF Trim(st.text) = "" THEN st
  ELSE IF st.ws = "null" \/ st.readyState # "OPEN" THEN st
  ELSE Send([st EXCEPT !.isGenerating = TRUE],
            [type |-> "voice_request", text |-> Trim(st.text),
             character_id |-> st.selectedCharacter])

\* The Generate Speech button is enabled (lines 236-239).
GenerateEnabled ==
  studioMounted /\ ~isGenerating /\ Trim(text) # "" /\ connectionStatus = "connected"

\* A click on the Generate Speech button.
generateSpeech ==
  /\ GenerateEnabled
  /\ Len(outstanding) < MaxRequests
  /\ LET st == generateSpeechFn(StudioSnapshot)
     IN /\ ApplyStudio(st)
        /\ studioOp' = StudioOp("generateSpeech", IF st.isGenerating THEN "sent" ELSE "unavailable")
        /\ RenderChild(st)
  /\ UNCHANGED <<studio, studioMounted>>

\* handleCharacterChangeFn as it would be if the switch also applied to the
\* requests already sent.
handleCharacterChangeFn_Retroactive(st, characterId) ==
  LET st1 == [st EXCEPT !.selectedCharacter = characterId,
                        !.outstanding = [i \in 1..Len(@) |-> [@[i] EXCEPT !.character_id = characterId]]]
  IN IF st.ws # "null" /\ st.readyState = "OPEN"
       THEN Send(st1, [type |-> "character_switch", text |-> "", character_id |-> characterId])
       ELSE st1

\* handleCharacterChange (lines 168-178).
handleCharacterChangeFn(st, characterId) ==
  LET st1 == [st EXCEPT !.selectedCharacter = characterId]
  IN IF st.ws # "null" /\ st.readyState = "OPEN"
       THEN Send(st1, [type |-> "character_switch", text |-> "", character_id |-> characterId])
       ELSE st1

\* A click on a character button; the buttons are never disabled.
handleCharacterChange(characterId) ==
  /\ studioMounted
  /\ LET st == handleCharacterChangeFn(StudioSnapshot, characterId)
     IN /\ ApplyStudio(st)
        /\ RenderChild(st)
  /\ studioOp' = StudioOp("characterChange", IF ws # "null" /\ readyState = "OPEN"
                                            THEN "sent" ELSE "local")
  /\ UNCHANGED <<studio, studioMounted>>

\* setText: typing in the textarea (line 230), a quick action (lines 259-280)
\* or the answer to generateDialogue (line 161), which can arrive at any time.
setText(t) ==
  /\ studioMounted
  /\ t # text
  /\ LET st == [StudioSnapshot EXCEPT !.text = t]
     IN /\ ApplyStudio(st)
        /\ RenderChild(st)
  /\ studioOp' = StudioOp("setText", "")
  /\ UNCHANGED <<studio, studioMounted>>

\* websocket.onopen (lines 49-53): the connection is established.
SocketOpen ==
  /\ readyState = "CONNECTING"
  /\ LET st == [StudioSnapshot EXCEPT !.readyState = "OPEN", !.ws = "socket",
                                      !.connectionStatus = "connected"]
     IN /\ ApplyStudio(st)
        /\ RenderChild([st EXCEPT !.lastResult = lastResult, !.isGenerating = isGenerating])
  /\ studioOp' = StudioOp("open", "")
  /\ UNCHANGED <<studio, studioMounted>>

\* The messages the server can send: a voice_response answering the oldest
\* unanswered request, a character_switched acknowledgement, a rejection
\* (JSON with an error type) of the newest unanswered request, the JSON text
\* null, and a frame that is not JSON.
MessageKinds == {"voice_response", "character_switched", "error", "null", "malformed"}

\* The frames JSON.parse accepts.
JsonKinds == MessageKinds \ {"malformed"}

\* websocket.onmessage (lines 55-70).  JSON.parse throws on a frame that is
\* not JSON; for the JSON text null it returns null, and the read of
\* data.type throws a TypeError: either way the catch block runs.
onmessageFn(st, kind, url) ==
  CASE kind = "voice_response" ->
         [st EXCEPT !.lastResult = [type |-> "voice_response", audio_url |-> url,
                                    character_id |-> Head(st.outstanding).character_id],
                    !.isGenerating = FALSE,
                    !.outstanding = Tail(@)]
    [] kind = "error" ->
         [st EXCEPT !.outstanding = SubSeq(@, 1, Len(@) - 1)]
    [] kind \in {"null", "malformed"} ->
         [st EXCEPT !.isGenerating = FALSE]
    [] OTHER -> st

\* A frame arrives on the socket.
SocketMessage(kind, url) ==
  /\ readyState \in {"OPEN", "CLOSING"}
  /\ kind \in {"voice_response", "error"} => Len(outstanding) > 0
  /\ LET st == onmessageFn(StudioSnapshot, kind, url)
     IN /\ ApplyStudio(st)
        /\ RenderChild([st EXCEPT !.lastResult = StudioSet(lastResult, st.lastResult),
                                  !.isGenerating = StudioSet(isGenerating, st.isGenerating)])
  /\ studioOp' = StudioOp("message", kind)
  /\ UNCHANGED <<studio, studioMounted>>

\* The server starts the closing handshake: the socket is closing, and no
\* handler runs yet.
SocketClosing ==
  /\ studio = "alone"
  /\ readyState = "OPEN"
  /\ readyState' = "CLOSING"
  /\ studioOp' = StudioOp("closing", "")
  /\ UNCHANGED <<studio, studioMounted, text, selectedCharacter, isGenerating, lastResult, ws,
                 connectionStatus, outstanding, lastSent>>
  /\ UNCHANGED playerVars

\* SocketClose as it would be had onerror and onclose left the generating
\* flag alone.
SocketClose_KeepsGenerating(failed) ==
  /\ readyState # "CLOSED"
  /\ LET st == [StudioSnapshot EXCEPT !.readyState = "CLOSED",
                                      !.connectionStatus = "disconnected",
                                      !.outstanding = << >>]
     IN /\ ApplyStudio(st)
        /\ RenderChild(st)
  /\ studioOp' = StudioOp("close", IF failed THEN "error" ELSE "clean")
  /\ UNCHANGED <<studio, studioMounted>>

\* SocketClose as it would be had onclose opened a new socket.
SocketClose_Reconnects(failed) ==
  /\ readyState # "CLOSED"
  /\ LET st == [StudioSnapshot EXCEPT !.readyState = "CONNECTING",
                                      !.connectionStatus = "disconnected",
                                      !.isGenerating = FALSE,
                                      !.outstanding = << >>]
     IN /\ ApplyStudio(st)
        /\ RenderChild([st EXCEPT !.isGenerating = StudioSet(isGenerating, FALSE)])
  /\ studioOp' = StudioOp("close", IF failed THEN "error" ELSE "clean")
  /\ UNCHANGED <<studio, studioMounted>>

\* The connection is closed or fails: websocket.onerror (lines 72-76; only
\* when it failed) and then websocket.onclose (lines 78-82) run in one task.
\* The requests that were unanswered die with the channel.
SocketClose(failed) ==
  /\ readyState # "CLOSED"
  /\ LET st == [StudioSnapshot EXCEPT !.readyState = "CLOSED",
                                      !.connectionStatus = "disconnected",
                                      !.isGenerating = FALSE,
                                      !.outstanding = << >>]
     IN /\ ApplyStudio(st)
        /\ RenderChild([st EXCEPT !.isGenerating = StudioSet(isGenerating, FALSE)])
  /\ studioOp' = StudioOp("close", IF failed THEN "error" ELSE "clean")
  /\ UNCHANGED <<studio, studioMounted>>

\* VoiceStudio unmounts: the cleanup of the effect (lines 84-88) closes the
\* socket if it is open, and only then.  React destroys the state; the
\* variables that held it go back to their initial values.  The AudioPlayer
\* it hosts unmounts with it.
StudioUnmount ==
  /\ studioMounted
  /\ studioMounted' = FALSE
  /\ readyState' = IF readyState = "OPEN" THEN "CLOSING" ELSE readyState
  /\ text' = ""
  /\ selectedCharacter' = "narrator"
  /\ isGenerating' = FALSE
  /\ lastResult' = NoResult
  /\ ws' = "null"
  /\ connectionStatus' = "connecting"
  /\ studioOp' = StudioOp("unmount", "")
  /\ UNCHANGED <<studio, outstanding, lastSent>>
  /\ IF studio = "host" THEN Unmount ELSE UNCHANGED playerVars

\* ------------------------------------------------------------ specification
\* The inputs of each operation.  Where the operation does not look at an
\* input, one value stands for all of them.
TogglePlayOutcomes ==
  IF impl = "part_001" /\ audioRef.present /\ ~isPlaying /\ ~isPlaceholderUrl(audioUrl)
     /\ audioRef.src = audioUrl /\ audioRef.stage = 2
    THEN PlayOutcomes ELSE {"pending"}
CanPlayOutcomes == IF WaitingOn(attempts) # {} THEN PlayOutcomes ELSE {"pending"}
DetachedOutcomes(code) == IF code < 0 /\ audioRef.present THEN PlayOutcomes ELSE {"pending"}
SeekInputs ==
  IF studio = "host" THEN {}
  ELSE IF audioRef.present /\ duration # 0 /\ ~(impl = "part_001" /\ isPlaceholderUrl(audioUrl))
    THEN ClickOffsets ELSE {0}

\* The inputs of VoiceStudio.  With the player hosted, the user types one
\* text and picks one character, and the server answers every request with
\* a result.
TextInputs == IF studio = "host" THEN {" hi "} ELSE Texts
CharacterInputs == IF studio = "host" THEN {"hero"} ELSE Characters
MessageInputs ==
  IF studio = "host"
    THEN {<<"voice_response", u>> : u \in ResultUrls}
    ELSE {<<"voice_response", u>> : u \in ResultUrls}
         \cup {<<k, NoUrl>> : k \in MessageKinds \ {"voice_response"}}

Next ==
  \/ \E url \in Urls, loading \in BOOLEAN : studio = "absent" /\ SetProps(url, loading) /\ NoCallback
  \/ studio = "absent" /\ Unmount /\ NoCallback
  \/ \E o \in TogglePlayOutcomes : togglePlay(o) /\ NoCallback
  \/ LegacyTogglePlay /\ NoCallback
  \/ \E i \in IntervalIds : SimulationTick(i) /\ NoCallback
  \/ MediaLoadedMetadata /\ NoCallback
  \/ \E o \in CanPlayOutcomes : MediaCanPlay(o) /\ NoCallback
  \/ \E code \in MediaErrorCodes : MediaError(code) /\ NoCallback
  \/ MediaTimeUpdate /\ NoCallback
  \/ MediaEnded /\ NoCallback
  \/ \E a \in AttemptIds : LoadTimeout(a) /\ NoCallback
  \/ \E a \in AttemptIds, code \in {-1} \cup MediaErrorCodes :
       \E o \in DetachedOutcomes(code) : DetachedLoadEvent(a, code, o) /\ NoCallback
  \/ \E a \in AttemptIds : PlaySettled(a) /\ NoCallback
  \/ \E ok \in BOOLEAN : HeadResponse(ok) /\ NoCallback
  \/ \E clickX \in SeekInputs : handleSeek(clickX) /\ NoCallback
  \/ \E t \in TextInputs : setText(t)
  \/ \E c \in CharacterInputs : handleCharacterChange(c)
  \/ generateSpeech
  \/ SocketOpen
  \/ \E m \in MessageInputs : SocketMessage(m[1], m[2])
  \/ SocketClosing
  \/ \E failed \in BOOLEAN : SocketClose(failed)
  \/ StudioUnmount

Spec == Init /\ [][Next]_vars

TypeOK ==
  /\ impl \in {"part_001", "legacy"}
  /\ mounted \in BOOLEAN
  /\ audioUrl \in Urls \cup {NoUrl}
  /\ isPlaying \in BOOLEAN
  /\ isLoadingAudio \in BOOLEAN
  /\ playPromiseRef \in 0..MaxAttempts
  /\ simulationIntervalRef \in 0..MaxIntervals
  /\ fetches \in 0..MaxFetches
  /\ studio \in {"absent", "alone", "host"}
  /\ studioMounted \in BOOLEAN
  /\ text \in Texts
  /\ selectedCharacter \in Characters
  /\ isGenerating \in BOOLEAN
  /\ ws \in {"null", "socket"}
  /\ connectionStatus \in {"connecting", "connected", "disconnected"}
  /\ readyState \in {"CONNECTING", "OPEN", "CLOSING", "CLOSED"}
  /\ Len(outstanding) <= MaxRequests

\* The simulation timer runs as long as the page lives; the browser fires a
\* live interval timer again and again.
FairSpec == Spec /\ WF_vars(\E i \in IntervalIds : SimulationTick(i) /\ NoCallback)

\* The 10 s timer of a load attempt is a browser timer as well: it fires while
\* the attempt still waits.  A play() promise that has been rejected runs
\* the code awaiting it.  Nothing in the code makes the media element report
\* anything or a pending play() promise settle.
LoadFairSpec ==
  /\ FairSpec
  /\ \A a \in AttemptIds :
       /\ WF_vars(LoadTimeout(a) /\ NoCallback)
       /\ WF_vars(attempts[a].promise = "aborted" /\ PlaySettled(a) /\ NoCallback)

\* ------------------------------------------------------------------ claims
\* The reference is a fallback for the version of the component at hand.
IsFallback(url) == IF impl = "part_001" THEN isPlaceholderUrl(url) ELSE isMockUrl(url)

\* The rendered element is playing.
MediaPlaying == audioRef.present /\ ~audioRef.paused

\* The step is the player's operation of the given name: every operation of
\* the player records its name, and a step of VoiceStudio either leaves the
\* player alone or re-renders it.
PlayerStep(name) == playerVars' # playerVars /\ lastOp'.name = name

\* C1: in part_001 at most one progress driver is active: never two
\* simulation intervals alive at once, and never a live simulation interval
\* together with a playing media element.
C1_AtMostOneDriver ==
  impl = "part_001" =>
    /\ Cardinality(LiveIntervals) <= 1
    /\ ~(LiveIntervals # {} /\ MediaPlaying)

\* C1 witness: play was pressed on a fallback reference while the timer of an
\* earlier press was still alive, and exactly one timer is alive afterwards.
C1_Witness ==
  /\ impl = "part_001"
  /\ lastOp = OpArg("togglePlay", "restart")
  /\ Cardinality(LiveIntervals) = 1

\* C2: in part_001, a change of audioUrl leaves no simulation interval alive
\* and the rendered element paused, whatever was running before it; with no
\* interval alive, no tick of the old interval can follow.
C2_SwitchStopsDriver ==
  [][(impl = "part_001" /\ mounted' /\ audioUrl' # audioUrl) =>
       /\ LiveIntervals' = {}
       /\ simulationIntervalRef' = 0
       /\ ~MediaPlaying']_vars

\* C2 witness: a reference switch that interrupted a running simulation
\* interval.
C2_Witness ==
  /\ impl = "part_001"
  /\ lastOp = OpArg("audioUrlChange", "interval")
  /\ LiveIntervals = {}

\* C3 (as claimed): in part_001, after the component has unmounted no
\* simulation interval is alive and no simulation tick fires.
C3_UnmountStopsDriver ==
  (impl = "part_001" /\ ~mounted) => (LiveIntervals = {} /\ lastOp.name # "tick")

\* C4 (as claimed): whenever the audio reference changes, in either version
\* of the component, the state is reset: not playing, elapsed time 0,
\* duration 0, no error, not loading.
C4_SwitchResetsState ==
  lastOp.name = "audioUrlChange" =>
    /\ ~isPlaying
    /\ currentTime = 0
    /\ duration = 0
    /\ audioError = NoError
    /\ ~isLoadingAudio

\* C5: in part_001 every tick of the simulation adds one increment to the
\* timer's progress and shows it as the elapsed time; the tick on which the
\* progress reaches the simulated duration sets playing to false and clears
\* the timer; and a running simulation always comes to an end.
C5_SimulationEnds ==
  /\ [][(impl = "part_001" /\ PlayerStep("tick")) =>
          \E i \in IntervalIds :
            /\ intervals[i] >= 0
            /\ IF intervals[i] + 1 < SimEndTick
                 THEN /\ intervals'[i] = intervals[i] + 1
                      /\ mounted => currentTime' = intervals[i] + 1
                      /\ isPlaying' = isPlaying
                 ELSE /\ intervals'[i] < 0
                      /\ simulationIntervalRef' = 0
                      /\ ~isPlaying'
                      /\ currentTime' = 0]_vars
  /\ (impl = "part_001" /\ LiveIntervals # {}) ~> (LiveIntervals = {})

\* C5 witness: the simulation ran to its end: the last operation was the tick
\* that cleared the timer, on a mounted component showing a fallback reference.
C5_Witness ==
  /\ impl = "part_001"
  /\ mounted
  /\ isPlaceholderUrl(audioUrl)
  /\ lastOp.name = "tick"
  /\ LiveIntervals = {}
  /\ ~isPlaying
  /\ duration = SimDuration

\* C6 (as claimed): in the legacy component, pressing play on a mock
\* reference enters Playing with the simulation timer running.
C6_LegacyMockPlays ==
  (impl = "legacy" /\ lastOp.name = "togglePlay" /\ isMockUrl(audioUrl)) =>
    (isPlaying /\ LiveIntervals # {})

\* C7: for a fallback reference a seek changes nothing: elapsed time, playing
\* flag, duration, the simulation timers and the element stay as they were.
C7_SeekOnFallbackIsNoOp ==
  [][(lastOp'.name = "seek" /\ IsFallback(audioUrl)) =>
       UNCHANGED <<currentTime, isPlaying, duration, intervals, simulationIntervalRef,
                   audioRef, audioError, isLoadingAudio>>]_vars

\* C7 witness: a seek was requested while the simulation of a fallback
\* reference was playing and had already advanced.
C7_Witness ==
  /\ lastOp.name = "seek"
  /\ IsFallback(audioUrl)
  /\ isPlaying
  /\ LiveIntervals # {}
  /\ currentTime > 0

\* C8 (as claimed): for a real reference in part_001, a seek (a click inside
\* the bar) issued while loading, in Error, or after the audio ended leaves
\* the elapsed time and the media position unchanged.
C8_SeekOnlyWhilePlayingOrPaused ==
  [][(/\ impl = "part_001"
      /\ lastOp' = OpArg("seek", "inside")
      /\ ~isPlaceholderUrl(audioUrl)
      /\ \/ isLoadingAudio
         \/ audioError # NoError
         \/ (audioRef.present /\ audioRef.paused /\ audioRef.pos >= MediaDuration)) =>
       UNCHANGED <<currentTime, audioRef>>]_vars

\* C8 (amended): for a real reference in part_001, a seek takes effect exactly
\* when the element is rendered and the known duration is not 0, whatever the
\* playback state: then the elapsed time becomes the target and the media
\* position the target kept inside the media; otherwise both stay unchanged.
C8_SeekNeedsDuration ==
  [][(impl = "part_001" /\ lastOp'.name = "seek" /\ ~isPlaceholderUrl(audioUrl)) =>
       IF audioRef.present /\ duration # 0
         THEN \E clickX \in ClickOffsets :
                /\ currentTime' = SeekTarget(clickX, SeekBarWidth, duration)
                /\ audioRef' = [audioRef EXCEPT !.pos = ClampPos(currentTime')]
         ELSE UNCHANGED <<currentTime, audioRef>>]_vars

\* C8 witness: a seek took effect in the Error state, with playback stopped.
C8_Witness ==
  /\ impl = "part_001"
  /\ lastOp = OpArg("seek", "inside")
  /\ ~isPlaceholderUrl(audioUrl)
  /\ audioError # NoError
  /\ ~isPlaying
  /\ currentTime > 0
  /\ audioRef.pos = currentTime

\* C9 (as claimed): after a seek on a real reference that took effect, the
\* elapsed time lies in [0, duration].
C9_SeekClamped ==
  (/\ impl = "part_001"
   /\ lastOp.name = "seek"
   /\ audioUrl # NoUrl
   /\ ~isPlaceholderUrl(audioUrl)
   /\ audioRef.present
   /\ duration # 0) =>
    (0 <= currentTime /\ currentTime <= duration)

\* The last operation was a failure of a playback attempt: an error event of
\* the media element, the load timeout, a refused or rejected play(), or a
\* failed load of a captured element.
AttemptFailed ==
  \/ lastOp.name \in {"mediaerror", "loadtimeout"}
  \/ lastOp.name \in {"togglePlay", "canplay", "detachedload", "playsettled"} /\ lastOp.arg = "failed"

\* C10: in part_001, right after any failure of a playback attempt the
\* component is in Error: not playing, not loading, and the error reason is
\* set.
C10_FailureEntersError ==
  (impl = "part_001" /\ mounted /\ AttemptFailed) =>
    (~isPlaying /\ ~isLoadingAudio /\ audioError # NoError)

\* C10 witness: the load timeout of a pending attempt fired and the timeout
\* reason is shown.
C10_Witness ==
  /\ impl = "part_001"
  /\ mounted
  /\ lastOp.name = "loadtimeout"
  /\ audioError = CatchReason("timeout")
  /\ ~isLoadingAudio

\* The failure cause a displayed reason names, read off the message texts of
\* togglePlay's catch block and handleAudioError; "generic" is a message that
\* names no cause.
ReasonCause(reason) ==
  CASE reason = "Audio loading was aborted"                                        -> "aborted"
    [] reason = "Playback was interrupted. Please try again."                      -> "aborted"
    [] reason = "Network error while loading audio - check your connection"        -> "network"
    [] reason = "Network error: Unable to load audio file"                         -> "network"
    [] reason = "Audio file is corrupted or invalid format"                        -> "decode"
    [] reason = "Audio format not supported"                                       -> "unsupported"
    [] reason = "Audio format not supported by your browser"                       -> "unsupported"
    [] reason = "Audio playback blocked. Click to enable audio"                    -> "blocked"
    [] reason = "Audio loading timed out - the file may be large or server slow"   -> "timeout"
    [] reason = "CORS error - audio may still be accessible via direct link"       -> "cors"
    [] OTHER                                                                       -> "generic"

\* The cause behind a MediaError code and behind a refused play().
MediaCause(code) ==
  CASE code = 1 -> "aborted" [] code = 2 -> "network" [] code = 3 -> "decode"
    [] OTHER -> "unsupported"
PlayCause(name) == IF name = "NotAllowedError" THEN "blocked" ELSE "unsupported"

\* C11 (as claimed): in part_001 every failure with a cause the specification
\* names (a media error that is aborted, network, decode or unsupported
\* format, a play() refused by policy or for the format, the load timeout)
\* leaves the reason of that very cause on display, never the reason of
\* another cause and never the generic one.
C11_SpecificReasons ==
  [][(impl = "part_001" /\ mounted) =>
       /\ \A code \in 1..4 :
            MediaError(code) => ReasonCause(audioError') = MediaCause(code)
       /\ (\E a \in AttemptIds : LoadTimeout(a)) => ReasonCause(audioError') = "timeout"
       /\ \A o \in {"NotAllowedError", "NotSupportedError"} :
            ((togglePlay(o) \/ MediaCanPlay(o)) /\ lastOp'.arg = "failed")
              => ReasonCause(audioError') = PlayCause(o)]_vars

\* C12 (as claimed): in part_001 every load attempt leaves the loading state:
\* whenever the mounted component is loading, it eventually is not loading
\* any more (or is gone).
C12_LoadingEnds ==
  (impl = "part_001" /\ mounted /\ isLoadingAudio) ~> (~mounted \/ ~isLoadingAudio)

\* C13: in part_001, no step that ends with a fallback reference on display
\* issues a HEAD request, renders a media element, starts a load attempt or
\* calls play(): reference switches to it, play and stop presses, ticks.
C13_FallbackNoNetwork ==
  [][(impl = "part_001" /\ mounted' /\ isPlaceholderUrl(audioUrl')) =>
       /\ fetches' <= fetches
       /\ ~audioRef'.present
       /\ Live(attempts') \subseteq Live(attempts)
       /\ \A a \in AttemptIds : attempts'[a].phase = "play" => attempts[a].phase = "play"]_vars

\* C13 witness: a fallback reference was played and then stopped by the
\* toggle, and no request, element or attempt exists.
C13_Witness ==
  /\ impl = "part_001"
  /\ isPlaceholderUrl(audioUrl)
  /\ lastOp = OpArg("togglePlay", "stop")
  /\ fetches = 0
  /\ ~audioRef.present
  /\ Live(attempts) = {}

\* C14 (as claimed): at most one voice_request is unanswered at any time.
C14_OneOutstanding == Len(outstanding) <= 1

\* C15 (as claimed): once the server has answered a request with a rejection
\* (an error or busy message), VoiceStudio is no longer generating.
C15_RejectionEndsGenerating ==
  (studioMounted /\ studioOp = OpArg("message", "error")) => ~isGenerating

\* C16: every voice_request sent carries a text that is not empty and is
\* trimmed; and in every state in which the text is empty after trimming,
\* generateSpeech changes nothing: no message, same generating flag, same
\* last result.
C16_RequestsCarryText ==
  /\ \A i \in 1..Len(outstanding) :
       outstanding[i].text # "" /\ Trim(outstanding[i].text) = outstanding[i].text
  /\ lastSent.type = "voice_request" =>
       (lastSent.text # "" /\ Trim(lastSent.text) = lastSent.text)
  /\ Trim(text) = "" => generateSpeechFn(StudioSnapshot) = StudioSnapshot

\* C16 witness: a request was sent for a text with blanks around it, and the
\* message carries the trimmed text.
C16_Witness ==
  /\ studioOp = OpArg("generateSpeech", "sent")
  /\ text = " hi "
  /\ lastSent = [type |-> "voice_request", text |-> "hi", character_id |-> selectedCharacter]
  /\ isGenerating

\* C17: a character switch leaves the unanswered requests as they were sent
\* and, on an open socket, is sent on the channel even while generating; a
\* new voice_request carries the character selected when it is sent and
\* leaves the earlier requests alone.
C17_SwitchKeepsRequest ==
  [][/\ studioOp'.name = "characterChange" =>
          /\ outstanding' = outstanding
          /\ (ws # "null" /\ readyState = "OPEN") =>
               lastSent' = [type |-> "character_switch", text |-> "",
                            character_id |-> selectedCharacter']
     /\ Len(outstanding') > Len(outstanding) =>
          /\ outstanding'[Len(outstanding')].character_id = selectedCharacter
          /\ SubSeq(outstanding', 1, Len(outstanding)) = outstanding]_vars

\* C17 witness: the character was switched while a request was unanswered:
\* the switch went out on the channel and the request still names the
\* character it was sent with.
C17_Witness ==
  /\ studioOp = OpArg("characterChange", "sent")
  /\ isGenerating
  /\ Len(outstanding) = 1
  /\ outstanding[1].character_id # selectedCharacter
  /\ lastSent = [type |-> "character_switch", text |-> "", character_id |-> selectedCharacter]

\* C18: once the connection status is 'disconnected' it stays so as long as
\* the component lives, and no voice_request is sent.
C18_ClosedIsTerminal ==
  [][(studioMounted' /\ connectionStatus = "disconnected") =>
       /\ connectionStatus' = "disconnected"
       /\ outstanding' = outstanding
       /\ lastSent'.type = "voice_request" => lastSent' = lastSent]_vars

\* C18 witness: the socket had been open, the connection is lost, and the
\* user has since put a text into the textarea.
C18_Witness ==
  /\ connectionStatus = "disconnected"
  /\ ws = "socket"
  /\ readyState = "CLOSED"
  /\ studioOp.name = "setText"
  /\ Trim(text) # ""

\* C19: a step in which the AudioPlayer enters Error (its error reason
\* becomes non-null) sends nothing on the channel and leaves the VoiceStudio
\* state as it was.
C19_PlayerErrorKeepsSession ==
  [][(audioError = NoError /\ audioError' # NoError) =>
       UNCHANGED <<isGenerating, lastResult, selectedCharacter, connectionStatus,
                   text, ws, readyState, outstanding, lastSent>>]_vars

\* C19 witness: the player hosted by a connected VoiceStudio failed while
\* VoiceStudio was generating the next result.
C19_Witness ==
  /\ studio = "host"
  /\ mounted
  /\ AttemptFailed
  /\ audioError # NoError
  /\ connectionStatus = "connected"
  /\ lastResult # NoResult
  /\ isGenerating
  /\ Len(outstanding) = 1

AttemptInProgress ==
  isLoadingAudio \/ isPlaying \/ Live(attempts) # {} \/ PlayerStep("togglePlay")

\* C21 (as claimed): in part_001 the error reason becomes non-null only as the
\* outcome of a load or play attempt: never by a step taken while the
\* component is idle, neither loading nor playing and with no attempt pending.
C21_ErrorOnlyFromAttempt ==
  [][(impl = "part_001" /\ mounted /\ audioError = NoError /\ audioError' # NoError)
       => AttemptInProgress]_vars

\* The three controls as the steps of the model: a press of play (the toggle
\* while not playing), a press of stop (the toggle while playing), and the
\* end of the audio (the tick that ends the simulation, the element's ended).
PlayPress == ~isPlaying /\ PlayerStep("togglePlay")
StopPress == isPlaying /\ PlayerStep("togglePlay")
EndOfAudio ==
  \/ PlayerStep("ended")
  \/ PlayerStep("tick") /\ LiveIntervals' # LiveIntervals

\* C22: in part_001 play, stop and end of audio have the same observable
\* effect for a locator and for a fallback reference.  A press of play ends
\* in playing, or, for a locator, in the loading phase (or in the error of a
\* play() refused at once), and the success of that phase ends in playing; a
\* press of stop ends in not playing with elapsed time 0 (for a locator
\* whose play() promise is pending, once that promise has settled); the end
\* of the audio ends in not playing with elapsed time 0.
C22_UniformControls ==
  [][(impl = "part_001" /\ mounted) =>
       /\ PlayPress =>
            \/ isPlaying'
            \/ ~isPlaceholderUrl(audioUrl) /\ isLoadingAudio'
            \/ ~isPlaceholderUrl(audioUrl) /\ lastOp'.arg = "failed" /\ audioError' # NoError
       /\ (PlayerStep("playsettled") /\ lastOp'.arg = "ok") =>
            IF stopWaiting' = stopWaiting THEN isPlaying'
            ELSE audioRef.present => (~isPlaying' /\ currentTime' = 0)
       /\ StopPress =>
            \/ ~isPlaying' /\ currentTime' = 0
            \/ ~isPlaceholderUrl(audioUrl) /\ lastOp'.arg = "stopwait" /\ stopWaiting' # {}
       /\ EndOfAudio => ~isPlaying' /\ currentTime' = 0]_vars

\* C22 witness: a locator was played to its end: the element stands at the
\* end of the media, and the component shows not playing, elapsed time 0.
C22_Witness ==
  /\ impl = "part_001"
  /\ mounted
  /\ lastOp = Op("ended")
  /\ ~isPlaceholderUrl(audioUrl)
  /\ audioRef.pos = MediaDuration
  /\ ~isPlaying
  /\ currentTime = 0

\* The step is the VoiceStudio operation of the given name (recorded where
\* VoiceStudio is studied alone, and nothing else moves there).
StudioStep(name) == studio = "alone" /\ studioVars' # studioVars /\ studioOp'.name = name

\* C23 (as claimed): a voice_response replaces the last result and clears the
\* generating flag; every other frame that is JSON (a character_switched, a
\* message of another type, any other JSON text) leaves the last result and
\* the generating flag as they were.
C23_ResultOnlyByResponse ==
  [][(studioMounted /\ StudioStep("message")) =>
       /\ studioOp'.arg = "voice_response" =>
            /\ lastResult'.type = "voice_response"
            /\ lastResult'.audio_url \in ResultUrls
            /\ ~isGenerating'
       /\ studioOp'.arg \in JsonKinds \ {"voice_response"} =>
            /\ lastResult' = lastResult
            /\ isGenerating' = isGenerating]_vars

\* The rendered element still carries the src that a togglePlay call assigned
\* for an earlier reference (line 169): no togglePlay call has started an
\* attempt since the reference switched, so every attempt pending on the
\* element began before the switch.
HoldsPreviousSrc == audioRef.present /\ audioRef.src \notin {NoUrl, audioUrl}

\* An attempt pending on the rendered element goes on: its load wait ends,
\* or its play() promise settles.
AttemptContinues == PlayerStep("canplay") \/ PlayerStep("playsettled")

\* C24 (as claimed): in part_001, when an attempt begun for an earlier
\* reference goes on after the switch, it neither sets playing to true nor
\* starts the media.
C24_StaleAttemptNeverPlays ==
  [][(impl = "part_001" /\ mounted /\ HoldsPreviousSrc /\ AttemptContinues) =>
       /\ ~(~isPlaying /\ isPlaying')
       /\ ~(audioRef.paused /\ ~audioRef'.paused)]_vars

\* A HEAD request in flight was issued for an earlier reference: the
\* reference on display needs none (testAudioUrl issues one only for a
\* locator that is neither a placeholder nor a Murf url).
HeadIsStale == fetches > 0 /\ ~NeedsFetch(audioUrl)

\* C25 (as claimed): in part_001 the completion of an accessibility test or
\* of a load attempt begun for an earlier reference sets neither the error
\* reason nor the tested flag of the reference on display.
C25_ErrorOfCurrentReference ==
  [][(impl = "part_001" /\ mounted) =>
       /\ (HeadIsStale /\ PlayerStep("headresponse")) =>
            (audioError' = audioError /\ audioTested' = audioTested)
       /\ (HoldsPreviousSrc /\ (AttemptContinues \/ PlayerStep("loadtimeout"))) =>
            audioError' = audioError]_vars

\* C26 (as claimed): while VoiceStudio is generating, and the AudioPlayer it
\* hosts shows its loading view, no driver of the previous result is active:
\* no simulation interval is alive, the media does not play, and no step is
\* a tick of the simulation.
C26_NoDriverWhileGenerating ==
  [][(studio = "host" /\ studioMounted /\ isGenerating) =>
       /\ LiveIntervals = {}
       /\ ~MediaPlaying
       /\ ~PlayerStep("tick")]_vars

\* C27 (as claimed): in part_001, with a fallback reference on display,
\* playing is true exactly when a simulation interval is alive, and the
\* elapsed time never exceeds the simulated duration.
C27_FallbackFlagMatchesTimer ==
  (impl = "part_001" /\ mounted /\ audioUrl # NoUrl /\ isPlaceholderUrl(audioUrl)) =>
    /\ isPlaying <=> LiveIntervals # {}
    /\ currentTime <= SimDuration

\* C28: in part_001 a press of the toggle while playing stops the playback,
\* for a fallback reference and for a locator alike: after the press playing
\* is false, the elapsed time is 0, no simulation interval is alive and the
\* media does not play (where a play() promise is pending, the stop waits
\* for it); and a press of play that follows the stop starts at 0: the
\* elapsed time is 0, the element stands at 0, the new simulation at 0.
C28_ToggleStops ==
  [][(impl = "part_001" /\ mounted) =>
       /\ StopPress =>
            \/ /\ ~isPlaying'
               /\ currentTime' = 0
               /\ LiveIntervals' = {}
               /\ ~MediaPlaying'
               /\ audioRef'.pos = 0
            \/ ~isPlaceholderUrl(audioUrl) /\ lastOp'.arg = "stopwait" /\ stopWaiting' # {}
       /\ (lastOp = OpArg("togglePlay", "stop") /\ PlayPress) =>
            /\ currentTime' = 0
            /\ audioRef'.pos = 0
            /\ isPlaceholderUrl(audioUrl) =>
                 (simulationIntervalRef' # 0 /\ intervals'[simulationIntervalRef'] = 0)]_vars

\* C28 witness: a locator that was playing has been stopped by the toggle:
\* the element holds its data, is paused and stands at 0, the component shows
\* not playing and elapsed time 0.
C28_Witness ==
  /\ impl = "part_001"
  /\ mounted
  /\ lastOp = OpArg("togglePlay", "stop")
  /\ ~isPlaceholderUrl(audioUrl)
  /\ audioRef.present /\ audioRef.stage = 2 /\ audioRef.paused /\ audioRef.pos = 0
  /\ ~isPlaying
  /\ currentTime = 0
  /\ LiveIntervals = {}

\* A press of the play button would start a load attempt: the conditions
\* under which togglePlay reaches setIsLoadingAudio(true) (lines 139-165),
\* with the button rendered and enabled (lines 376-379).
CanStartAttempt ==
  /\ impl = "part_001"
  /\ RendersControls
  /\ ~isLoadingAudio
  /\ ~isPlaceholderUrl(audioUrl)
  /\ audioRef.present
  /\ ~isPlaying

\* C29 (as claimed): in part_001, while an attempt started by togglePlay has
\* neither completed nor failed, no second attempt can start: the play
\* button cannot start one, changes of the reference included.
C29_OneAttemptPending ==
  (impl = "part_001" /\ mounted /\ Live(attempts) # {}) => ~CanStartAttempt

\* C30 (as claimed): once VoiceStudio has unmounted, its channel is closed or
\* closing, whatever the state of the socket was at the unmount: no session
\* stays open or comes to be open.
C30_UnmountClosesChannel ==
  (studio # "absent" /\ ~studioMounted) => readyState \in {"CLOSING", "CLOSED"}

\* C31: in every reachable state in which the mounted VoiceStudio shows the
\* connection status 'disconnected', the generating flag is false: the error
\* and close handlers clear it together with the status they set, and no
\* click can set it afterwards.
C31_DisconnectedNotGenerating ==
  (studioMounted /\ connectionStatus = "disconnected") => ~isGenerating

\* C31 witness: the channel was lost after a request had been sent and before
\* any result arrived: the last message sent is that voice_request, there is
\* no result, the status is 'disconnected' and the flag is false.
C31_Witness ==
  /\ studioMounted
  /\ connectionStatus = "disconnected"
  /\ readyState = "CLOSED"
  /\ lastSent.type = "voice_request"
  /\ lastResult = NoResult
  /\ Trim(text) # ""
  /\ ~isGenerating

====
